---- MODULE Spec2Model ----
(***************************************************************************)
(* A model of src/app.py: a Streamlit script that appends analysed-video   *)
(* rows to a Google sheet (tab 1) and answers chat questions from the rows *)
(* retrieved by TF-IDF cosine similarity (tab 2).                          *)
(*                                                                         *)
(* Text is a sequence of one-character strings.  The sheet's column names  *)
(* are Korean in the source; they are romanised here:                      *)
(*   sujip_ilsi (capture time), upload_il, yeongsang_id, jemok (title),    *)
(*   chaeneolmyeong (channel), haeksim_juje (main topic), haeksim_jujang   *)
(*   (key arguments), geungeo (evidence), sisajeom (implications),         *)
(*   tadangseong (validity), gamjeong (sentiment), yoyak (summary),        *)
(*   taegeu (tags), URL.                                                   *)
(***************************************************************************)
EXTENDS Integers, Sequences, FiniteSets, TLC

VARIABLES
    \* ---- the Streamlit application (specification Spec) ----
    secrets,      \* st.secrets: the set of secret names that are configured
    header,       \* row 1 of sheet1 of "Youtube_Data_Store": column names
    rows,         \* the data rows of the sheet (row 2 onwards), each 14 texts
    clientCached, \* st.cache_resource holds init_connection()'s client
    messages,     \* st.session_state["messages"], or <<>> while the key is absent
    event,        \* the widget values of the last script run
    trace,        \* the steps the last script run executed, in order
    df,           \* the DataFrame get_data() returned in the last run
    rowData,      \* row_data built by the submit handler in the last run
    relevant,     \* relevant_rows of the last run
    prevRows,     \* rows as they were when the last run began
    prevMessages, \* messages as they were when the last run began
    \* ---- search_documents as a function (specification SpecSearch) ----
    sQuery,       \* argument query
    sDf,          \* argument df (the function adds a column to it)
    sTopK,        \* argument top_k
    sOut          \* NotCalled, or what the call returned

appVars == <<secrets, header, rows, clientCached, messages, event, trace, df,
             rowData, relevant, prevRows, prevMessages>>
searchVars == <<sQuery, sDf, sTopK, sOut>>
vars == <<secrets, header, rows, clientCached, messages, event, trace, df,
          rowData, relevant, prevRows, prevMessages, sQuery, sDf, sTopK, sOut>>

----------------------------------------------------------------------------
(* Bounds of the model.                                                    *)

\* most records in a record set handed to search_documents (SpecSearch)
MaxDocs == 3
\* largest top_k handed to search_documents (SpecSearch)
MaxTopK == 3
\* most data rows the sheet grows to (Spec)
MaxRows == 2
\* most chat inputs processed in one session (Spec)
MaxChats == 1

----------------------------------------------------------------------------
(* Text.                                                                   *)

LowerCase == <<"a","b","c","d","e","f","g","h","i","j","k","l","m",
               "n","o","p","q","r","s","t","u","v","w","x","y","z">>
UpperCase == <<"A","B","C","D","E","F","G","H","I","J","K","L","M",
               "N","O","P","Q","R","S","T","U","V","W","X","Y","Z">>
Digits == <<"0","1","2","3","4","5","6","7","8","9">>

Range(s) == {s[i] : i \in DOMAIN s}

DigitChars == Range(Digits)
UpperChars == Range(UpperCase)
WordChars == Range(LowerCase) \cup Range(UpperCase) \cup Range(Digits) \cup {"_"}

IsDigit(c) == c \in DigitChars

\* \w of the vectorizer's token pattern
IsWordChar(c) == c \in WordChars

\* str.lower() on one character
Lower(c) ==
    IF c \in UpperChars
    THEN LowerCase[CHOOSE i \in DOMAIN UpperCase : UpperCase[i] = c]
    ELSE c

RECURSIVE Join(_, _)
\* sep.join(items)
Join(sep, items) ==
    IF items = <<>> THEN <<>>
    ELSE IF Len(items) = 1 THEN items[1]
    ELSE items[1] \o sep \o Join(sep, Tail(items))

RECURSIVE Reverse(_)
\* seq[::-1]
Reverse(s) == IF s = <<>> THEN <<>> ELSE Append(Reverse(Tail(s)), Head(s))

RECURSIVE SumSeq(_)
SumSeq(s) == IF s = <<>> THEN 0 ELSE Head(s) + SumSeq(Tail(s))

RECURSIVE SetToSeq(_)
\* the elements of a finite set, in some fixed order
SetToSeq(S) ==
    IF S = {} THEN <<>>
    ELSE LET x == CHOOSE y \in S : TRUE IN <<x>> \o SetToSeq(S \ {x})

\* seq[start:] for a start that may be negative, with Python's clamping;
\* positions are 0-based as in Python
PySliceFrom(s, start) ==
    LET n == Len(s)
        from == IF start < 0
                THEN (IF n + start < 0 THEN 0 ELSE n + start)
                ELSE (IF start > n THEN n ELSE start)
    IN  SubSeq(s, from + 1, n)

----------------------------------------------------------------------------
(* TfidfVectorizer() with its default parameters: lowercase=True,          *)
(* token_pattern (?u)\b\w\w+\b, use_idf, smooth_idf, norm="l2"; and        *)
(* cosine_similarity.  Real arithmetic is carried in fixed point: idf in   *)
(* hundredths, unit vectors in thousandths.                                *)

RECURSIVE Scan(_, _, _, _)
\* the maximal runs of word characters of text[i..], lower-cased, keeping
\* the runs of two characters or more; cur is the run being read
Scan(text, i, cur, acc) ==
    LET flushed == IF Len(cur) >= 2 THEN Append(acc, cur) ELSE acc IN
    IF i > Len(text) THEN flushed
    ELSE IF IsWordChar(text[i])
         THEN Scan(text, i + 1, Append(cur, Lower(text[i])), acc)
         ELSE Scan(text, i + 1, <<>>, flushed)

\* the analyzer: the tokens of a text, in order
Tokenize(text) == Scan(text, 1, <<>>, <<>>)

\* raw term frequency of term t in a token sequence
Tf(tokens, t) == Cardinality({i \in DOMAIN tokens : tokens[i] = t})

\* round(100 * ln k)
LnCenti == <<0, 69, 110, 139, 161, 179, 195, 208, 220, 230>>

\* smooth idf, in hundredths: ln((1 + n) / (1 + df)) + 1
Idf(n, docFreq) == LnCenti[1 + n] - LnCenti[1 + docFreq] + 100

RECURSIVE ISqrtBetween(_, _, _)
ISqrtBetween(x, lo, hi) ==
    IF lo >= hi THEN lo
    ELSE LET mid == (lo + hi + 1) \div 2 IN
         IF mid * mid <= x THEN ISqrtBetween(x, mid, hi)
         ELSE ISqrtBetween(x, lo, mid - 1)

\* floor of the square root
ISqrt(x) == ISqrtBetween(x, 0, 46340)

\* vocabulary_ after fit: the terms of all documents
Vocabulary(docTokens) == UNION {Range(docTokens[i]) : i \in DOMAIN docTokens}

\* the l2-normalised tf-idf row of one token sequence over the fitted
\* vocabulary, in thousandths; terms outside the vocabulary are ignored, a
\* row without terms stays zero
TfidfRow(tokens, vocab, docTokens) ==
    LET n == Len(docTokens)
        docFreq(t) == Cardinality({i \in DOMAIN docTokens : t \in Range(docTokens[i])})
        w == [t \in vocab |-> Tf(tokens, t) * Idf(n, docFreq(t))]
        terms == SetToSeq(vocab)
        norm == ISqrt(SumSeq([k \in DOMAIN terms |-> w[terms[k]] * w[terms[k]]]))
    IN  [t \in vocab |-> IF norm = 0 THEN 0 ELSE (w[t] * 1000) \div norm]

\* cosine_similarity of two unit rows: their dot product (in millionths)
Cosine(u, v) ==
    LET terms == SetToSeq(DOMAIN u)
    IN  SumSeq([k \in DOMAIN terms |-> u[terms[k]] * v[terms[k]]])

----------------------------------------------------------------------------
(* DataFrames: a sequence of records, each a function from column name to  *)
(* a cell [num, s]: num says the value is a number, s is str(value).       *)

Str(text) == [num |-> FALSE, s |-> text]

Columns(frame) == IF frame = <<>> THEN {} ELSE DOMAIN frame[1]

SearchColumns == <<"jemok", "haeksim_juje", "haeksim_jujang", "sisajeom", "yoyak">>

\* lines 48-54: the five columns as strings, joined by single spaces
CombinedText(rec) ==
    Join(<<" ">>, [k \in DOMAIN SearchColumns |-> rec[SearchColumns[k]].s])

\* df with the column combined_text assigned (line 48)
WithCombinedText(frame) ==
    [i \in DOMAIN frame |->
        [c \in DOMAIN frame[i] \cup {"combined_text"} |->
            IF c = "combined_text" THEN Str(CombinedText(frame[i])) ELSE frame[i][c]]]

\* lines 58-60: cosine_sim, one value per row; <<>> when fit_transform
\* raises ValueError (empty vocabulary)
Similarities(query, frame) ==
    LET docTokens == [i \in DOMAIN frame |-> Tokenize(CombinedText(frame[i]))]
        vocab == Vocabulary(docTokens)
        q == TfidfRow(Tokenize(query), vocab, docTokens)
    IN  IF vocab = {} THEN <<>>
        ELSE [i \in DOMAIN frame |-> Cosine(q, TfidfRow(docTokens[i], vocab, docTokens))]

IndexPermutations(n) ==
    {p \in [1..n -> 1..n] : \A i, j \in 1..n : i # j => p[i] # p[j]}

\* what cosine_sim.argsort() may return: numpy's default kind is an unstable
\* sort, so any order of the positions with ascending similarity; positions
\* are 1-based here (0-based in the source)
ArgsortOutcomes(sim) ==
    {p \in IndexPermutations(Len(sim)) :
        \A i \in 1..(Len(sim) - 1) : sim[p[i]] <= sim[p[i + 1]]}

\* the slice of line 61 without its reversal
TopIndicesAscending(order, top_k) == PySliceFrom(order, 0 - top_k)

\* line 61: cosine_sim.argsort()[-top_k:][::-1]
TopIndices(order, top_k) == Reverse(PySliceFrom(order, 0 - top_k))

RECURSIVE Positive(_, _)
\* lines 63-66: the indices whose similarity is > 0, in the order given
Positive(indices, sim) ==
    IF indices = <<>> THEN <<>>
    ELSE IF sim[Head(indices)] > 0
         THEN <<Head(indices)>> \o Positive(Tail(indices), sim)
         ELSE Positive(Tail(indices), sim)

\* the outcome of a call that returned or raised before line 56
Early(raised, frame) ==
    [raised |-> raised, results |-> <<>>, vectorizer |-> "none",
     cosine_sim |-> <<>>, frame |-> frame]

\* lines 47-69 of search_documents: the outcomes on a frame that passed the
\* df.empty test, one for each outcome of argsort
RankDocuments(query, frame, top_k) ==
    IF ~(Range(SearchColumns) \subseteq Columns(frame))
    THEN {Early("KeyError", frame)}
    ELSE LET sim == Similarities(query, frame)
             withText == WithCombinedText(frame)
         IN  IF sim = <<>>
             THEN {[raised |-> "none", results |-> <<>>, vectorizer |-> "failed",
                    cosine_sim |-> <<>>, frame |-> withText]}
             ELSE {LET kept == Positive(TopIndices(order, top_k), sim)
                   IN  [raised |-> "none",
                        results |-> [k \in DOMAIN kept |->
                                       [name |-> kept[k], row |-> withText[kept[k]]]],
                        vectorizer |-> "fitted",
                        cosine_sim |-> sim,
                        frame |-> withText] : order \in ArgsortOutcomes(sim)}

\* the value of sOut before the call
NotCalled == Early("not called", <<>>)

\* a search_documents without the df.empty test of lines 44-45
SearchDocumentsUnguarded(query, frame, top_k) == RankDocuments(query, frame, top_k)

\* search_documents(query, df, top_k): the outcomes the call may have.
\*   raised     "none", or "KeyError" when a searched column is missing
\*   results    the returned list, each df.iloc[idx] as [name, row]
\*   vectorizer "none" before line 56, "failed" when fit_transform raised
\*              ValueError, "fitted" otherwise
\*   cosine_sim the local cosine_sim, <<>> when line 60 was not reached
\*   frame      df as the call leaves it
SearchDocuments(query, frame, top_k) ==
    IF frame = <<>> THEN {Early("none", frame)}
    ELSE RankDocuments(query, frame, top_k)

----------------------------------------------------------------------------
(* The form's JSON input.  A text-area value is modelled by its source     *)
(* text (for reading) and by what json.loads makes of it.                  *)

\* a JSON string, and a JSON array of strings
JStr(text) == [t |-> "string", s |-> text, items |-> <<>>]
JArr(texts) == [t |-> "array", s |-> <<>>, items |-> texts]

\* a top-level JSON object with the given members, and a top-level array
JObject(members) == [kind |-> "object", fields |-> members]
JTopArray == [kind |-> "array", fields |-> <<>>]

Fed == <<"F","e","d">>
RateWord == <<"r","a","t","e">>
FedRate == <<"F","e","d"," ","r","a","t","e">>
RateUp == <<"r","a","t","e"," ","u","p">>
Gold == <<"G","o","l","d">>
GoldLower == <<"g","o","l","d">>
GoldFed == <<"g","o","l","d"," ","f","e","d">>
OneLetter == <<"a">>
ZeroZeroSeven == <<"0","0","7">>
Unmatched == <<"o","i","l">>

EmptyText == [src |-> "", wellFormed |-> FALSE, value |-> JTopArray]
MalformedText == [src |-> "{\"title\": \"Fed rate\",", wellFormed |-> FALSE,
                  value |-> JTopArray]
EmptyObjectText == [src |-> "{}", wellFormed |-> TRUE, value |-> JObject(<<>>)]
UnknownKeyText ==
    [src |-> "{\"note\": \"Fed\"}", wellFormed |-> TRUE,
     value |-> JObject([k \in {"note"} |-> JStr(Fed)])]
FedText ==
    [src |-> "{\"video_id\": \"007\", \"title\": \"Fed rate\", \"main_topic\": \"rate\", \"key_arguments\": [\"rate up\", \"a\"], \"full_summary\": \"Fed\"}",
     wellFormed |-> TRUE,
     value |-> JObject([k \in {"video_id", "title", "main_topic", "key_arguments",
                               "full_summary"} |->
                 CASE k = "video_id" -> JStr(ZeroZeroSeven)
                   [] k = "title" -> JStr(FedRate)
                   [] k = "main_topic" -> JStr(RateWord)
                   [] k = "key_arguments" -> JArr(<<RateUp, OneLetter>>)
                   [] k = "full_summary" -> JStr(Fed)])]
GoldText ==
    [src |-> "{\"title\": \"Gold\", \"full_summary\": \"gold\"}", wellFormed |-> TRUE,
     value |-> JObject([k \in {"title", "full_summary"} |->
                 IF k = "title" THEN JStr(Gold) ELSE JStr(GoldLower)])]
TagsListText ==
    [src |-> "{\"title\": \"Gold\", \"tags\": [\"gold\"]}", wellFormed |-> TRUE,
     value |-> JObject([k \in {"title", "tags"} |->
                 IF k = "title" THEN JStr(Gold) ELSE JArr(<<GoldLower>>)])]
TopArrayText == [src |-> "[]", wellFormed |-> TRUE, value |-> JTopArray]

\* the values the text area takes in the model
FormTexts == {EmptyText, MalformedText, EmptyObjectText, UnknownKeyText, FedText,
              TagsListText, TopArrayText}

\* a parser that answers malformed text with an empty object
JsonLoadsLenient(text) ==
    IF text.wellFormed THEN [raised |-> "none", value |-> text.value]
    ELSE [raised |-> "none", value |-> JObject(<<>>)]

\* json.loads(json_input), line 87
JsonLoads(text) ==
    IF text.wellFormed THEN [raised |-> "none", value |-> text.value]
    ELSE [raised |-> "JSONDecodeError", value |-> JTopArray]

\* the keys the submit handler reads (lines 90-111)
RecognizedKeys == {"published_at", "video_id", "title", "channel_name", "main_topic",
                   "key_arguments", "evidence", "implications", "validity_check",
                   "sentiment", "full_summary", "tags", "url"}

\* data.get(key, default) on a parsed object
DictGet(data, key, default) ==
    IF key \in DOMAIN data.fields THEN data.fields[key] ELSE default

\* the bullet list with its "- " prefix put before an empty result too
BulletedAlways(v) ==
    LET parts == IF v.t = "array" THEN v.items ELSE [i \in DOMAIN v.s |-> <<v.s[i]>>]
    IN  <<"-", " ">> \o Join(<<"\n", "-", " ">>, parts)

\* "\n- ".join(v) and the "- " prefix of a non-empty result (lines 90-94);
\* joining a string joins its characters
Bulleted(v) ==
    LET parts == IF v.t = "array" THEN v.items ELSE [i \in DOMAIN v.s |-> <<v.s[i]>>]
        joined == Join(<<"\n", "-", " ">>, parts)
    IN  IF joined = <<>> THEN joined ELSE <<"-", " ">> \o joined

\* datetime.now().strftime("%Y-%m-%d %H:%M:%S"); the model reads one instant
Timestamp == <<"2","0","2","6","-","1","1","-","0","4"," ",
               "0","6",":","0","0",":","0","0">>

\* lines 97-112: row_data, 14 values in the sheet's column order
RowData(data) ==
    <<JStr(Timestamp),
      DictGet(data, "published_at", JStr(<<>>)),
      DictGet(data, "video_id", JStr(<<>>)),
      DictGet(data, "title", JStr(<<>>)),
      DictGet(data, "channel_name", JStr(<<>>)),
      DictGet(data, "main_topic", JStr(<<>>)),
      JStr(Bulleted(DictGet(data, "key_arguments", JArr(<<>>)))),
      JStr(Bulleted(DictGet(data, "evidence", JArr(<<>>)))),
      DictGet(data, "implications", JStr(<<>>)),
      DictGet(data, "validity_check", JStr(<<>>)),
      DictGet(data, "sentiment", JStr(<<>>)),
      DictGet(data, "full_summary", JStr(<<>>)),
      DictGet(data, "tags", JStr(<<>>)),
      DictGet(data, "url", JStr(<<>>))>>

----------------------------------------------------------------------------
(* The sheet, through gspread.                                             *)

\* the header the row layout of lines 97-112 is written for
ExpectedHeader ==
    <<"sujip_ilsi", "upload_il", "yeongsang_id", "jemok", "chaeneolmyeong",
      "haeksim_juje", "haeksim_jujang", "geungeo", "sisajeom", "tadangseong",
      "gamjeong", "yoyak", "taegeu", "URL">>

\* a header whose title column carries another name
RenamedTitleHeader == [i \in DOMAIN ExpectedHeader |->
                         IF ExpectedHeader[i] = "jemok" THEN "Title" ELSE ExpectedHeader[i]]

\* a header of 12 names: the last two cells of row 1 are blank.  The
\* service returns row 1 padded to the width of the data rows, so the two
\* blank cells are keys only once a 14-column data row exists.
ShortHeader == [i \in DOMAIN ExpectedHeader |-> IF i > 12 THEN "" ELSE ExpectedHeader[i]]

Headers == {ExpectedHeader, RenamedTitleHeader, ShortHeader}

\* append_row accepts scalar cells; a list cell is rejected by the service
Appendable(row) == \A i \in DOMAIN row : row[i].t = "string"

\* the row as the sheet stores it (value_input_option RAW): the texts as given
StoredRow(row) == [i \in DOMAIN row |-> row[i].s]

IsSpace(c) == c \in {" ", "\n"}

RECURSIVE LStrip(_)
LStrip(text) ==
    IF text # <<>> /\ IsSpace(Head(text)) THEN LStrip(Tail(text)) ELSE text

Strip(text) == Reverse(LStrip(Reverse(LStrip(text))))

RECURSIVE DropZeros(_)
DropZeros(ds) ==
    IF Len(ds) > 1 /\ Head(ds) = "0" THEN DropZeros(Tail(ds)) ELSE ds

\* gspread's numericise, applied by get_all_records to every cell: a text
\* that int() accepts becomes that integer, any other text is kept.  (A text
\* with "_" is kept; float() accepts none of the model's other texts.)
Numericise(text) ==
    LET body == Strip(text)
        signed == body # <<>> /\ Head(body) \in {"-", "+"}
        ds == IF signed THEN Tail(body) ELSE body
        isInt == ds # <<>> /\ \A i \in DOMAIN ds : IsDigit(ds[i])
        mag == DropZeros(ds)
    IN  IF isInt
        THEN [num |-> TRUE,
              s |-> IF signed /\ Head(body) = "-" /\ mag # <<"0">>
                    THEN <<"-">> \o mag ELSE mag]
        ELSE Str(text)

\* len(keys) == len(set(keys))
HeaderUnique(h) == Cardinality(Range(h)) = Len(h)

\* sheet.get_all_records() followed by pd.DataFrame (lines 32-33): every
\* data row as a record keyed by row 1.  Without data rows the result is
\* empty whatever row 1 holds; with data rows the call raises when the keys
\* are not unique (HeaderUnique), which callers check first
GetAllRecords(h, rs) ==
    [i \in DOMAIN rs |-> [c \in Range(h) |->
        Numericise(rs[i][CHOOSE k \in DOMAIN h : h[k] = c])]]

----------------------------------------------------------------------------
(* One run of the script.  Streamlit runs the whole script, top to bottom, *)
(* for every widget interaction; a run is carried as a record              *)
(*   status  "running", "stopped" (st.stop()) or "raised" (an exception    *)
(*           left the script)                                              *)
(*   trace   the steps executed so far                                     *)
(* with the run's view of rows, clientCached, messages, df, rowData and    *)
(* relevant.  session_state without the key "messages" is messages = <<>>. *)

\* top_k's default, the value the script calls search_documents with
TopKDefault == 3

Greeting == [role |-> "assistant", kind |-> "greeting", text |-> <<>>]
UserMessage(prompt) == [role |-> "user", kind |-> "prompt", text |-> prompt]
\* the reply when nothing was found (line 147), the model's text (line 175)
\* and the text made of a failed call's exception (line 177)
NotFoundReply == [role |-> "assistant", kind |-> "not found", text |-> <<>>]
ModelReply == [role |-> "assistant", kind |-> "response.text", text |-> <<>>]
FailedReply == [role |-> "assistant", kind |-> "generation failed", text |-> <<>>]

Log(run, steps) == [run EXCEPT !.trace = run.trace \o steps]

\* the script's state when a run begins
BeginRun ==
    [status |-> "running", trace |-> <<>>, rows |-> rows,
     clientCached |-> clientCached, messages |-> messages, df |-> <<>>,
     rowData |-> <<>>, relevant |-> <<>>]

\* lines 15-18
ConfigureGemini(run) ==
    IF "google_api_key" \in secrets
    THEN Log(run, <<"genai.configure">>)
    ELSE Log(run, <<"st.error: no api key">>)

\* init_connection(), lines 21-27, under st.cache_resource: "cached" when
\* the cache holds the client, "KeyError" when the secret is missing (nothing
\* is cached), "created" otherwise
InitConnection(run) ==
    IF run.clientCached THEN "cached"
    ELSE IF "gcp_service_account" \notin secrets THEN "KeyError"
    ELSE "created"

\* save_data(row_data), lines 35-40; up says the spreadsheet service answers.
\* Returns the run after the call and the exception raised ("none" if none).
SaveData(run, row, up) ==
    LET conn == InitConnection(run)
        called == Log(run, <<"save_data">>)
        connected == [called EXCEPT !.clientCached = TRUE]
    IN  IF conn = "KeyError" THEN [run |-> called, raised |-> "KeyError"]
        ELSE IF ~up THEN [run |-> connected, raised |-> "ConnectionError"]
        ELSE IF ~Appendable(row) THEN [run |-> connected, raised |-> "APIError"]
        ELSE [run |-> [Log(connected, <<"append_row", "cache_resource.clear">>)
                         EXCEPT !.rows = Append(run.rows, StoredRow(row)),
                                !.clientCached = FALSE],
              raised |-> "none"]

\* get_data(), lines 29-33
GetData(run, up) ==
    LET conn == InitConnection(run)
        called == Log(run, <<"get_data">>)
        connected == [called EXCEPT !.clientCached = TRUE]
    IN  IF conn = "KeyError" THEN [run |-> called, raised |-> "KeyError"]
        ELSE IF ~up THEN [run |-> connected, raised |-> "ConnectionError"]
        ELSE IF run.rows # <<>> /\ ~HeaderUnique(header)
             THEN [run |-> connected, raised |-> "GSpreadException"]
        ELSE [run |-> [connected EXCEPT !.df = GetAllRecords(header, run.rows)],
              raised |-> "none"]

\* lines 85-120: the submit handler of data_input_form
SubmitHandler(run, ev, up) ==
    IF ~(ev.kind = "submit" /\ ev.json_input.src # "") THEN run
    ELSE LET parsing == Log(run, <<"json.loads">>)
             loaded == JsonLoads(ev.json_input)
         IN
         IF loaded.raised # "none"
         THEN Log(parsing, <<"raise JSONDecodeError", "st.error: malformed json">>)
         ELSE LET data == loaded.value IN
              IF data.kind # "object"
              THEN Log(parsing, <<"raise AttributeError", "st.error: save failed">>)
              ELSE LET row == RowData(data)
                       saved == SaveData([parsing EXCEPT !.rowData = row], row, up)
                   IN  IF saved.raised = "none"
                       THEN Log(saved.run, <<"st.success">>)
                       ELSE Log(saved.run, <<"raise " \o saved.raised,
                                             "st.error: save failed">>)

\* the load of lines 126-131 with the st.stop() of line 131 left out
LoadDataNoStop(run, up) ==
    LET got == GetData(run, up) IN
    IF got.raised = "none"
    THEN Log(got.run, <<"st.caption">>)
    ELSE Log(got.run, <<"raise " \o got.raised, "st.warning: cannot load">>)

\* lines 126-131: load the records for the chat tab, or warn and stop
LoadData(run, up) ==
    LET got == GetData(run, up) IN
    IF got.raised = "none"
    THEN Log(got.run, <<"st.caption">>)
    ELSE [Log(got.run, <<"raise " \o got.raised, "st.warning: cannot load", "st.stop">>)
            EXCEPT !.status = "stopped"]

\* lines 133-137: the greeting on a session's first run
ChatHistory(run) ==
    IF run.status # "running" THEN run
    ELSE IF run.messages = <<>>
    THEN [Log(run, <<"init messages">>) EXCEPT !.messages = <<Greeting>>]
    ELSE run

\* genai.GenerativeModel(...).generate_content(...) and response.text, lines
\* 173-175: up says the model service answers; without configure() the call
\* has no key and fails
Generate(up) == IF up /\ "google_api_key" \in secrets THEN "text" ELSE "Exception"

\* an answer step that calls the model whether or not records were found
AnswerAlways(run, results, up) ==
    IF Generate(up) = "text"
    THEN [run |-> Log(run, <<"generate_content">>), reply |-> ModelReply]
    ELSE [run |-> Log(run, <<"generate_content", "raise Exception">>),
          reply |-> FailedReply]

\* lines 146-177: response_text for the records found
Answer(run, results, up) ==
    IF results = <<>> THEN [run |-> run, reply |-> NotFoundReply]
    ELSE IF Generate(up) = "text"
    THEN [run |-> Log(run, <<"generate_content">>), reply |-> ModelReply]
    ELSE [run |-> Log(run, <<"generate_content", "raise Exception">>),
          reply |-> FailedReply]

\* lines 139-180: the chat input handler; the runs it may end in, one for
\* each outcome of search_documents
ChatHandler(run, ev, up) ==
    IF run.status # "running" \/ ev.kind # "chat" THEN {run}
    ELSE LET asked == [Log(run, <<"append user", "search_documents">>)
                         EXCEPT !.messages = Append(run.messages, UserMessage(ev.prompt))]
         IN  {LET searched == [asked EXCEPT !.df = out.frame] IN
              IF out.raised # "none"
              THEN [Log(searched, <<"raise " \o out.raised>>) EXCEPT !.status = "raised"]
              ELSE LET found == [searched EXCEPT !.relevant = out.results]
                       answered == Answer(found, out.results, up)
                   IN  [Log(answered.run, <<"append assistant">>)
                          EXCEPT !.messages = Append(found.messages, answered.reply)]
              : out \in SearchDocuments(ev.prompt, asked.df, TopKDefault)}

\* the whole script for one interaction: the runs it may end in
Script(ev, saveUp, loadUp, modelUp) ==
    UNION {ChatHandler(shown, ev, modelUp) :
      shown \in {ChatHistory(loaded) :
        loaded \in {LoadData(handled, loadUp) :
          handled \in {SubmitHandler(configured, ev, saveUp) :
            configured \in {ConfigureGemini(BeginRun)}}}}}

\* the variables after a run
Finish(ev, run) ==
    /\ event' = ev
    /\ trace' = run.trace
    /\ rows' = run.rows
    /\ clientCached' = run.clientCached
    /\ messages' = run.messages
    /\ df' = run.df
    /\ rowData' = run.rowData
    /\ relevant' = run.relevant
    /\ prevRows' = rows
    /\ prevMessages' = messages
    /\ UNCHANGED <<secrets, header>>
    /\ UNCHANGED searchVars

Prompts == {RateWord, Unmatched}

ChatsSoFar == Cardinality({i \in DOMAIN messages : messages[i].role = "user"})

\* the page is loaded or re-run with no form submitted and no chat input
Rerun ==
    \E loadUp \in BOOLEAN :
      \E run \in Script([kind |-> "rerun", json_input |-> EmptyText, prompt |-> <<>>],
                        TRUE, loadUp, TRUE) :
        Finish([kind |-> "rerun", json_input |-> EmptyText, prompt |-> <<>>], run)

\* the form is submitted with some text in the text area
Submit ==
    /\ Len(rows) < MaxRows
    /\ \E text \in FormTexts, saveUp, loadUp \in BOOLEAN :
         LET ev == [kind |-> "submit", json_input |-> text, prompt |-> <<>>] IN
         \E run \in Script(ev, saveUp, loadUp, TRUE) : Finish(ev, run)

\* a question is entered in the chat input
Chat ==
    /\ ChatsSoFar < MaxChats
    /\ \E prompt \in Prompts, loadUp, modelUp \in BOOLEAN :
         LET ev == [kind |-> "chat", json_input |-> EmptyText, prompt |-> prompt] IN
         \E run \in Script(ev, TRUE, loadUp, modelUp) : Finish(ev, run)

Init ==
    /\ secrets \in SUBSET {"google_api_key", "gcp_service_account"}
    /\ header \in Headers
    /\ rows = <<>>
    /\ clientCached = FALSE
    /\ messages = <<>>
    /\ event = [kind |-> "none", json_input |-> EmptyText, prompt |-> <<>>]
    /\ trace = <<>>
    /\ df = <<>>
    /\ rowData = <<>>
    /\ relevant = <<>>
    /\ prevRows = <<>>
    /\ prevMessages = <<>>
    /\ sQuery = <<>>
    /\ sDf = <<>>
    /\ sTopK = TopKDefault
    /\ sOut = NotCalled

Next == Rerun \/ Submit \/ Chat

Spec == Init /\ [][Next]_vars

\* how many times a step occurs in the last run's trace
Count(step) == Cardinality({i \in DOMAIN trace : trace[i] = step})

Did(step) == Count(step) > 0

----------------------------------------------------------------------------
(* search_documents as a function: the arguments are drawn in the initial  *)
(* state, and one call is made.                                            *)

\* the records the sample inputs leave in a sheet with the expected header
SampleRecords ==
    LET texts == <<EmptyObjectText, FedText, GoldText>>
        stored == [i \in DOMAIN texts |-> StoredRow(RowData(texts[i].value))]
    IN  Range(GetAllRecords(ExpectedHeader, stored))

Queries == {RateWord, GoldFed, Unmatched, <<>>}

RecordSets == UNION {[1..n -> SampleRecords] : n \in 0..MaxDocs}

\* the idle values of the application's variables
AppIdle ==
    /\ secrets = {"google_api_key", "gcp_service_account"}
    /\ header = ExpectedHeader
    /\ rows = <<>>
    /\ clientCached = FALSE
    /\ messages = <<>>
    /\ event = [kind |-> "none", json_input |-> EmptyText, prompt |-> <<>>]
    /\ trace = <<>>
    /\ df = <<>>
    /\ rowData = <<>>
    /\ relevant = <<>>
    /\ prevRows = <<>>
    /\ prevMessages = <<>>

InitSearch ==
    /\ sQuery \in Queries
    /\ sDf \in RecordSets
    /\ sTopK \in 0..MaxTopK
    /\ sOut = NotCalled
    /\ AppIdle

\* the call search_documents(sQuery, sDf, sTopK)
Search ==
    /\ sOut = NotCalled
    /\ \E out \in SearchDocuments(sQuery, sDf, sTopK) :
         /\ sOut' = out
         /\ sDf' = out.frame
    /\ UNCHANGED <<sQuery, sTopK>>
    /\ UNCHANGED appVars

NextSearch == Search

SpecSearch == InitSearch /\ [][NextSearch]_vars

\* the similarity of row i of the call's frame to the call's query
Sim(i) == sOut.cosine_sim[i]

\* the positions the call returned, in the order returned
Returned == [k \in DOMAIN sOut.results |-> sOut.results[k].name]

----------------------------------------------------------------------------
(* Properties of search_documents, checked under SpecSearch.               *)

Called == sOut.raised # "not called"

\* the number of rows of the call's frame
Rows == Len(sDf)

Min(a, b) == IF a <= b THEN a ELSE b

PositiveRows == {i \in 1..Len(sOut.cosine_sim) : Sim(i) > 0}

\* C1: for every query, record set and top_k >= 0 the call returns at most
\* top_k records, each with cosine similarity > 0 to the query.
C1_AtMostTopKAllPositive ==
    Called =>
        /\ Len(sOut.results) <= sTopK
        /\ \A k \in DOMAIN Returned : Sim(Returned[k]) > 0

\* C5: on an empty record set the call returns the empty list, for every
\* query and top_k, and no vectorizer is built (nor does the call raise).
C5_EmptySetGivesEmptyResult ==
    (Called /\ sDf = <<>>) =>
        /\ sOut.raised = "none"
        /\ sOut.results = <<>>
        /\ sOut.vectorizer = "none"

\* an empty record set was searched with a query of its own and top_k > 0
C5_Witness ==
    /\ Called
    /\ sDf = <<>>
    /\ sOut.results = <<>>
    /\ Tokenize(sQuery) # <<>>
    /\ sTopK > 0

\* C6 as stated: the returned records are in descending similarity, a tie
\* being listed and selected lower index first, and they are the top_k
\* highest-similarity records of the store.
C6_DescendingLowerIndexFirstTopK ==
    sOut.vectorizer = "fitted" =>
        /\ \A k, l \in DOMAIN Returned :
             k < l => \/ Sim(Returned[k]) > Sim(Returned[l])
                      \/ /\ Sim(Returned[k]) = Sim(Returned[l])
                         /\ Returned[k] < Returned[l]
        /\ Len(Returned) = Min(sTopK, Rows)
        /\ \A i \in Range(Returned), j \in (1..Rows) \ Range(Returned) :
             \/ Sim(i) > Sim(j)
             \/ Sim(i) = Sim(j) /\ i < j

\* C6 as amended: the returned records are in non-increasing similarity (the
\* order inside a tie is not fixed), each is returned once and has positive
\* similarity, no record left out is more similar than a returned one, and
\* for top_k >= 1 their number is the smaller of top_k and the number of
\* records with positive similarity.
C6_NonIncreasingPositiveTop ==
    sOut.vectorizer = "fitted" =>
        /\ \A k, l \in DOMAIN Returned :
             k < l => /\ Sim(Returned[k]) >= Sim(Returned[l])
                      /\ Returned[k] # Returned[l]
        /\ Range(Returned) \subseteq PositiveRows
        /\ \A i \in Range(Returned), j \in (1..Rows) \ Range(Returned) :
             Sim(i) >= Sim(j)
        /\ sTopK >= 1 => Len(Returned) = Min(sTopK, Cardinality(PositiveRows))

\* a call that cut the ranking to top_k = 2 of more rows and returned two
\* records of different similarity, and a third row that ties with one of
\* them
C6_Witness ==
    /\ sOut.vectorizer = "fitted"
    /\ sTopK = 2
    /\ Rows > sTopK
    /\ Len(Returned) = 2
    /\ Sim(Returned[1]) > Sim(Returned[2])
    /\ \E j \in (1..Rows) \ Range(Returned) : Sim(j) = Sim(Returned[2])

----------------------------------------------------------------------------
(* Properties of the script's runs, checked under Spec.  Every state after *)
(* the first is the end of a run: event is the interaction that caused it, *)
(* trace what it executed, prevRows and prevMessages what it started from. *)

Last(seq) == seq[Len(seq)]

Submitted == event.kind = "submit" /\ event.json_input.src # ""

\* the run's fetch (line 127) failed: get_data was called and did not return
FetchFailed == Did("get_data") /\ ~Did("st.caption")

\* the run's append (line 114) failed: save_data was called and did not return
SaveFailed == Did("save_data") /\ ~Did("append_row")

\* the value get_data gives for a cell holding the text given to append_row
AsGiven(value) == Str(value.s)

\* C2: with no other writer, after save_data(row) succeeds the next
\* get_data() returns the records that were in the store before, in the same
\* order, followed by that row, field for field.
C2_AppendThenFetchGivesRowBack ==
    (Did("append_row") /\ Did("st.caption")) =>
        /\ Len(df) = Len(prevRows) + 1
        /\ \A i \in 1..Len(prevRows) : df[i] = GetAllRecords(header, prevRows)[i]
        /\ \A j \in DOMAIN header : df[Len(df)][header[j]] = AsGiven(rowData[j])

NoRecognizedKeys ==
    /\ Submitted
    /\ event.json_input.wellFormed
    /\ event.json_input.value.kind = "object"
    /\ DOMAIN event.json_input.value.fields \cap RecognizedKeys = {}

\* C4: submitting a JSON object with none of the recognized keys appends
\* exactly one row of 14 columns, every column but the capture timestamp
\* empty, and reports success, not an error.  (The append itself can still
\* fail on the store's side - a missing credential, the service not
\* answering - and then nothing is appended and the failure is what is
\* reported; the input never causes an error.)
C4_NoKeysAppendsEmptyRow ==
    NoRecognizedKeys =>
        /\ Did("save_data")
        /\ Len(rowData) = 14
        /\ rowData[1] = JStr(Timestamp)
        /\ \A j \in 2..14 : rowData[j] = JStr(<<>>)
        /\ ~Did("st.error: malformed json")
        /\ ~Did("raise AttributeError")
        /\ ~Did("raise APIError")
        /\ IF SaveFailed
           THEN rows = prevRows /\ Did("st.error: save failed")
           ELSE /\ rows = Append(prevRows, [j \in 1..14 |-> IF j = 1 THEN Timestamp ELSE <<>>])
                /\ Count("append_row") = 1
                /\ Did("st.success")
                /\ ~Did("st.error: save failed")

\* {} was submitted, appended to a store that held a row, and success shown
C4_Witness ==
    /\ NoRecognizedKeys
    /\ event.json_input.src = "{}"
    /\ Did("st.success")
    /\ Len(rows) = Len(prevRows) + 1
    /\ prevRows # <<>>

\* C7: if either credential is absent the condition is fatal: an error is
\* shown and no later step of the run (submit handling, store fetch, search,
\* model call) is executed.
C7_MissingCredentialIsFatal ==
    (event.kind # "none" /\ secrets # {"google_api_key", "gcp_service_account"}) =>
        /\ \E i \in DOMAIN trace :
             trace[i] \in {"st.error: no api key", "st.error: save failed",
                           "st.warning: cannot load"}
        /\ ~Did("json.loads")
        /\ ~Did("get_data")
        /\ ~Did("search_documents")
        /\ ~Did("generate_content")

\* C8: a failed store operation is reported and halts the interaction: the
\* failed call is not retried, and after a failed fetch the run stops - no
\* chat input is processed, no search is run, no model call is made and no
\* message is appended to the chat history.
C8_StoreFailureReportedAndHalts ==
    /\ Count("get_data") <= 1
    /\ Count("save_data") <= 1
    /\ FetchFailed =>
         /\ Did("st.warning: cannot load")
         /\ Last(trace) = "st.stop"
         /\ ~Did("init messages")
         /\ ~Did("append user")
         /\ ~Did("search_documents")
         /\ ~Did("generate_content")
         /\ ~Did("append assistant")
         /\ messages = prevMessages
    /\ SaveFailed =>
         /\ Did("st.error: save failed")
         /\ ~Did("st.success")
         /\ rows = prevRows

\* a chat input arrived in a session with a history, and the fetch failed
C8_Witness ==
    /\ event.kind = "chat"
    /\ FetchFailed
    /\ prevMessages # <<>>
    /\ Did("st.stop")

\* the run's call of search_documents returned (it did not raise)
SearchReturned == Did("search_documents") /\ Last(trace) = "append assistant"

\* C9: for each chat message the model is called at most once: not at all
\* when search returns no records (the answer is then the fixed "nothing
\* found" text), exactly once otherwise, and a failed call becomes an answer
\* carrying the error instead of being retried.
C9_ModelCalledAtMostOnce ==
    event.kind = "chat" =>
        /\ Count("generate_content") <= 1
        /\ ~Did("search_documents") => ~Did("generate_content")
        /\ (SearchReturned /\ relevant = <<>>) =>
             /\ ~Did("generate_content")
             /\ Last(messages) = NotFoundReply
        /\ (SearchReturned /\ relevant # <<>>) =>
             /\ Count("generate_content") = 1
             /\ IF Did("raise Exception")
                THEN Last(messages) = FailedReply
                ELSE Last(messages) = ModelReply

\* a chat message found records and the model call failed
C9_Witness ==
    /\ event.kind = "chat"
    /\ relevant # <<>>
    /\ Did("generate_content")
    /\ Did("raise Exception")
    /\ Last(messages) = FailedReply

\* C10: the session history is the greeting followed by user and assistant
\* messages in strict alternation: every processed chat input appends one
\* user message and then one assistant message, and no run leaves a user
\* message without its reply.
C10_HistoryAlternates ==
    messages # <<>> =>
        /\ messages[1] = Greeting
        /\ Len(messages) % 2 = 1
        /\ \A i \in 2..Len(messages) :
             messages[i].role = IF i % 2 = 0 THEN "user" ELSE "assistant"

====
